---- MODULE Spec2Model ----
(***************************************************************************)
(* Model of the multi-provider classification orchestrator of              *)
(* join-the-siege: the provider circuit breaker (MultiProviderLLM health   *)
(* tracking), the escalation / backup algorithm                            *)
(* (classify_with_confidence_upgrade, _try_backup_providers) and the       *)
(* label validation of classify_with_llm.                                  *)
(*                                                                         *)
(* Confidences are in hundredths (0.8 is 80), time is in whole seconds.    *)
(***************************************************************************)
EXTENDS Integers, Sequences, FiniteSets, TLC

(* ---------------- providers (class LLMProvider) ---------------- *)
OPENAI_GPT4O_MINI == "openai_gpt4o_mini"
OPENAI_GPT4O == "openai_gpt4o"
GOOGLE_GEMINI == "google_gemini"
ANTHROPIC_CLAUDE == "anthropic_claude"

LLMProvider == {OPENAI_GPT4O_MINI, OPENAI_GPT4O, GOOGLE_GEMINI, ANTHROPIC_CLAUDE}

(* ---------------- program constants ---------------- *)
\* is_provider_healthy: "if health['failures'] < 3"
FailureLimit == 3
\* is_provider_healthy: "time.time() - health['last_failure'] > 300"
CooldownSecs == 300

\* classify_with_llm: "confidence_threshold=0.8"
ConfidenceThreshold == 80

(* ---------------- bounds of the model ---------------- *)
\* the clock stops advancing here
MaxTime == 601
\* no failure is recorded that would take a counter beyond this
MaxFailures == 4
\* amounts by which the clock advances in one step
\* task ids handed out by submit_classification_task
MaxJobs == 1
JobIds == 1..MaxJobs

\* the grain of time in the task queue
ElapseStep == 60

TickSteps == {CooldownSecs, CooldownSecs + 1}

\* providers whose health methods are called directly (the primary provider and a backup)
Probed == {OPENAI_GPT4O_MINI, GOOGLE_GEMINI}

\* labels a provider may answer: two categories of the industry, the
\* fallback label, and a label outside the industry's list
Labels == {"invoice", "unknown", "memo"}
\* confidences the primary provider may answer (below, at and above the threshold)
Confs == {60, 80, 95}
\* confidences the other providers may answer
OtherConfs == {70, 90}

VARIABLES
    provider_health,   \* self.provider_health: provider -> [failures, last_failure]
    backup_providers,  \* self.backup_providers: backup -> [enabled]
    now,               \* time.time()
    last_call,         \* the last direct call of a health method: the count it found, what
                       \* it returned, and a bit that flips with every call
    recorded,          \* per provider: failures reported since the last success / cooldown reset
    pc,                \* where classify_with_llm stands
    result,            \* classify_with_confidence_upgrade: result, as the primary adapter returned it
    upgrade_result,    \* classify_with_confidence_upgrade: upgrade_result, with the fields set on it
    backup_result,     \* what _try_backup_providers returned
    chain,             \* the running _try_backup_providers: its call site and loop position
    trace,             \* adapter calls and health calls of the current classification, in order
    answers,           \* what each adapter returned in the current classification
    llm_response,      \* what classify_with_confidence_upgrade returned or raised
    classified,        \* what classify_with_llm returned
    task_outcome,      \* what classify_document_async does with that: return or retry
    broker,            \* task messages sent and not yet taken: [id, retries, eta]
    backend,           \* result backend: task id -> its stored state and result
    running,           \* worker process -> the request it executes
    submitted,         \* task ids returned by submit_classification_task
    executions,        \* task id -> how many times the task body was started
    failure_log,       \* task id -> when its last attempt raised, which attempt, which exception
    pool_health,       \* worker process -> provider_health of its multi_provider_llm
    adapter_call,      \* the last call of a provider adapter: what the provider did, what
                       \* the adapter returned
    http_response      \* the last request to /classification_result/<task_id> and its response

health_vars == <<last_call, recorded>>
job_vars == <<pc, result, upgrade_result, backup_result, chain, trace, answers,
              llm_response, classified, task_outcome>>
celery_vars == <<broker, backend, running, submitted, executions, failure_log>>
worker_vars == <<celery_vars, pool_health>>
edge_vars == <<adapter_call, http_response>>
vars == <<provider_health, backup_providers, now, last_call, recorded,
          pc, result, upgrade_result, backup_result, chain, trace, answers,
          llm_response, classified, task_outcome, broker, backend, running,
          submitted, executions, failure_log, pool_health, adapter_call, http_response>>

(* ---------------- circuit breaker ---------------- *)

\* is_provider_healthy with the limit compared by <=
is_provider_healthy_limit_le(health, provider, t) ==
    IF health[provider].failures <= FailureLimit
    THEN TRUE
    ELSE IF t - health[provider].last_failure > CooldownSecs
         THEN TRUE
         ELSE FALSE

\* is_provider_healthy with the cooldown compared by >=
is_provider_healthy_cooldown_ge(health, provider, t) ==
    IF health[provider].failures < FailureLimit
    THEN TRUE
    ELSE IF t - health[provider].last_failure >= CooldownSecs
         THEN TRUE
         ELSE FALSE

\* is_provider_healthy, the value returned
is_provider_healthy(health, provider, t) ==
    IF health[provider].failures < FailureLimit
    THEN TRUE
    ELSE IF t - health[provider].last_failure > CooldownSecs
         THEN TRUE
         ELSE FALSE

\* is_provider_healthy, its effect on self.provider_health
is_provider_healthy_effect(health, provider, t) ==
    IF health[provider].failures < FailureLimit
    THEN health
    ELSE IF t - health[provider].last_failure > CooldownSecs
         THEN [health EXCEPT ![provider].failures = 0]
         ELSE health

\* record_success that also clears last_failure
record_success_clears_time(health, provider) ==
    [health EXCEPT ![provider] = [failures |-> 0, last_failure |-> 0]]

\* record_success that takes one failure off instead of clearing the count
record_success_decrement(health, provider) ==
    [health EXCEPT ![provider].failures = IF @ > 0 THEN @ - 1 ELSE 0]

record_success(health, provider) ==
    [health EXCEPT ![provider].failures = 0]

record_failure(health, provider, t) ==
    [health EXCEPT ![provider].failures = @ + 1,
                   ![provider].last_failure = t]

(* ---------------- dictionaries ---------------- *)

\* d[k] = v on a Python dict
Put(d, k, v) == [x \in (DOMAIN d) \cup {k} |-> IF x = k THEN v ELSE d[x]]

\* d.get(k, default)
Get(d, k, default) == IF k \in DOMAIN d THEN d[k] ELSE default

None == [none |-> TRUE]
NoCall == [op |-> "none", turn |-> 0]
NoChain == [caller |-> "none", index |-> 0]

\* the adapters of the four providers and the single-provider fallback
VISION_LLM == "call_vision_llm"
Adapters == LLMProvider \cup {VISION_LLM}
NoAnswers == [a \in Adapters |-> None]

(* ---------------- what the provider adapters return ---------------- *)

\* _call_openai_gpt4o_mini: the dict of a parsed answer, or success False
MiniResults ==
    { [success |-> TRUE, classification |-> l, confidence |-> c, model |-> "gpt-4o-mini"] :
        l \in Labels, c \in Confs }
    \cup { [success |-> FALSE, error |-> "error"] }

\* _call_openai_gpt4o
Gpt4oResults ==
    { [success |-> TRUE, classification |-> l, confidence |-> c, model |-> "gpt-4o"] :
        l \in Labels, c \in OtherConfs }
    \cup { [success |-> FALSE, error |-> "error"] }

\* _call_google_gemini / _call_anthropic_claude
BackupModel(provider) == IF provider = GOOGLE_GEMINI THEN "gemini-1.5-flash" ELSE "claude-3-haiku"

BackupResults(provider) ==
    { [success |-> TRUE, classification |-> l, confidence |-> c, model |-> BackupModel(provider)] :
        l \in Labels, c \in OtherConfs }
    \cup { [success |-> FALSE, error |-> "error"] }

\* call_vision_llm: the text of an answer (a JSON object with a label, or
\* text that is no JSON), or success False
VisionResults ==
    { [success |-> TRUE, content |-> [json |-> TRUE, classification |-> l, confidence |-> c]] :
        l \in Labels, c \in OtherConfs }
    \cup { [success |-> TRUE, content |-> [json |-> FALSE]] }
    \cup { [success |-> FALSE, error |-> "error"] }

(* ---------------- categories ---------------- *)

\* get_categories_for_industry('finance')
categories == {"invoice", "bank_statement", "financial_report"}

(* ---------------- events of the trace ---------------- *)

Call(p) == [e |-> "call", provider |-> p]
Success(p) == [e |-> "record_success", provider |-> p]
Failure(p) == [e |-> "record_failure", provider |-> p]
Checked(p, r) == [e |-> "is_provider_healthy", provider |-> p, ret |-> r]
Chain(c) == [e |-> "_try_backup_providers", caller |-> c]

(* ---------------- _try_backup_providers ---------------- *)

\* the backups iterated in the opposite order
backup_order_claude_first == <<ANTHROPIC_CLAUDE, GOOGLE_GEMINI>>

\* "for provider, config in self.backup_providers.items()": insertion order
backup_order == <<GOOGLE_GEMINI, ANTHROPIC_CLAUDE>>

\* the loop without "if not self.is_provider_healthy(provider): continue"
RECURSIVE select_backup_unchecked(_, _, _, _)
select_backup_unchecked(i, health, enabled, t) ==
    IF i > Len(backup_order)
    THEN [health |-> health, events |-> <<>>, index |-> 0]
    ELSE LET provider == backup_order[i] IN
         IF ~enabled[provider].enabled
         THEN select_backup_unchecked(i + 1, health, enabled, t)
         ELSE [health |-> is_provider_healthy_effect(health, provider, t),
               events |-> <<Checked(provider, is_provider_healthy(health, provider, t)),
                            Call(provider)>>,
               index |-> i]

\* the loop without "if not self.backup_providers[provider]['enabled']: continue"
RECURSIVE select_backup_ignores_enabled(_, _, _, _)
select_backup_ignores_enabled(i, health, enabled, t) ==
    IF i > Len(backup_order)
    THEN [health |-> health, events |-> <<>>, index |-> 0]
    ELSE LET provider == backup_order[i]
             healthy == is_provider_healthy(health, provider, t)
             checked == is_provider_healthy_effect(health, provider, t)
         IN  IF ~healthy
             THEN LET rest == select_backup_ignores_enabled(i + 1, checked, enabled, t)
                  IN  [rest EXCEPT !.events = <<Checked(provider, FALSE)>> \o @]
             ELSE [health |-> checked,
                   events |-> <<Checked(provider, TRUE), Call(provider)>>,
                   index |-> i]

\* the loop of _try_backup_providers from position i up to the next adapter
\* call: the providers skipped, the health checks made, and the position of
\* the provider that is called (0 when the loop ends without a call)
RECURSIVE select_backup(_, _, _, _)
select_backup(i, health, enabled, t) ==
    IF i > Len(backup_order)
    THEN [health |-> health, events |-> <<>>, index |-> 0]
    ELSE LET provider == backup_order[i] IN
         IF ~enabled[provider].enabled
         THEN select_backup(i + 1, health, enabled, t)
         ELSE LET healthy == is_provider_healthy(health, provider, t)
                  checked == is_provider_healthy_effect(health, provider, t)
              IN  IF ~healthy
                  THEN LET rest == select_backup(i + 1, checked, enabled, t)
                       IN  [rest EXCEPT !.events = <<Checked(provider, FALSE)>> \o @]
                  ELSE [health |-> checked,
                        events |-> <<Checked(provider, TRUE), Call(provider)>>,
                        index |-> i]

\* _try_backup_providers: "if result['success']: ... return result"
backup_success(res, provider) ==
    Put(Put(res, "provider_used", provider), "is_backup", TRUE)

(* ---------------- classify_with_confidence_upgrade ---------------- *)

Raised == [raised |-> "All LLM providers failed"]

\* the upgrade condition with the threshold compared by <=
should_upgrade_le(res, confidence_threshold) ==
    \/ Get(res, "confidence", 0) <= confidence_threshold
    \/ Get(res, "classification", "unknown") = "unknown"

\* the upgrade condition without the test for 'unknown'
should_upgrade_low_only(res, confidence_threshold) ==
    Get(res, "confidence", 0) < confidence_threshold

\* "confidence < confidence_threshold or classification == 'unknown'"
should_upgrade(res, confidence_threshold) ==
    \/ Get(res, "confidence", 0) < confidence_threshold
    \/ Get(res, "classification", "unknown") = "unknown"

\* the primary result returned without an upgrade
primary_result(res) ==
    Put(Put(res, "provider_used", OPENAI_GPT4O_MINI), "upgraded", FALSE)

upgrade_reason(res) ==
    IF Get(res, "classification", "unknown") = "unknown"
    THEN "unknown classification" ELSE "low confidence"

\* the upgrade result with original_* taken from the upgrade itself
upgraded_result_own_original(up, res) ==
    Put(Put(Put(Put(Put(up, "provider_used", OPENAI_GPT4O),
                            "upgraded", TRUE),
                            "upgrade_reason", upgrade_reason(res)),
                            "original_confidence", Get(up, "confidence", 0)),
                            "original_classification", Get(up, "classification", "unknown"))

\* the upgrade result after a successful GPT-4o call
upgraded_result(up, res) ==
    Put(Put(Put(Put(Put(up, "provider_used", OPENAI_GPT4O),
                            "upgraded", TRUE),
                            "upgrade_reason", upgrade_reason(res)),
                            "original_confidence", Get(res, "confidence", 0)),
                            "original_classification", Get(res, "classification", "unknown"))

\* after_backups without "backup_result.get('classification') != 'unknown'"
after_backups_any_backup(caller, backup, res, up) ==
    CASE caller = "still_unknown" ->
            IF backup # None
            THEN Put(Put(backup, "upgraded", TRUE), "upgrade_reason", "unknown after GPT-4o")
            ELSE up
      [] caller = "upgrade_failed" ->
            IF backup # None
            THEN backup
            ELSE Put(Put(Put(res, "provider_used", OPENAI_GPT4O_MINI),
                                  "upgraded", FALSE),
                                  "upgrade_failed", TRUE)
      [] OTHER ->
            IF backup # None THEN backup ELSE Raised

\* after_backups raising when the upgrade failed and no backup answered
after_backups_upgrade_failed_raises(caller, backup, res, up) ==
    CASE caller = "still_unknown" ->
            IF backup # None /\ Get(backup, "classification", None) # "unknown"
            THEN Put(Put(backup, "upgraded", TRUE), "upgrade_reason", "unknown after GPT-4o")
            ELSE up
      [] OTHER ->
            IF backup # None THEN backup ELSE Raised

\* after_backups returning the failed primary answer instead of raising
after_backups_returns_failed_primary(caller, backup, res, up) ==
    CASE caller = "still_unknown" ->
            IF backup # None /\ Get(backup, "classification", None) # "unknown"
            THEN Put(Put(backup, "upgraded", TRUE), "upgrade_reason", "unknown after GPT-4o")
            ELSE up
      [] caller = "upgrade_failed" ->
            IF backup # None
            THEN backup
            ELSE Put(Put(Put(res, "provider_used", OPENAI_GPT4O_MINI),
                                  "upgraded", FALSE),
                                  "upgrade_failed", TRUE)
      [] OTHER ->
            IF backup # None THEN backup ELSE res

\* what classify_with_confidence_upgrade does with the value of
\* _try_backup_providers, by the place it was called from
after_backups(caller, backup, res, up) ==
    CASE caller = "still_unknown" ->
            IF backup # None /\ Get(backup, "classification", None) # "unknown"
            THEN Put(Put(backup, "upgraded", TRUE), "upgrade_reason", "unknown after GPT-4o")
            ELSE up
      [] caller = "upgrade_failed" ->
            IF backup # None
            THEN backup
            ELSE Put(Put(Put(res, "provider_used", OPENAI_GPT4O_MINI),
                                  "upgraded", FALSE),
                                  "upgrade_failed", TRUE)
      [] OTHER ->
            IF backup # None THEN backup ELSE Raised

(* ---------------- classify_with_llm ---------------- *)

\* a validation that lets every label through
validated_unchecked(label) == label

\* "if classification not in categories: classification = 'unknown'"
validated(label) == IF label \in categories THEN label ELSE "unknown"

\* the dict classify_with_llm builds from the multi-provider response
classify_result(resp) ==
    [classification |-> validated(Get(resp, "classification", "unknown")),
     confidence |-> Get(resp, "confidence", 0),
     provider_used |-> Get(resp, "provider_used", "unknown"),
     upgraded |-> Get(resp, "upgraded", FALSE),
     is_backup |-> Get(resp, "is_backup", FALSE),
     model |-> Get(resp, "model", "unknown")]

\* parse_llm_response on the answer of call_vision_llm
parse_llm_response(resp) ==
    IF ~resp.success
    THEN [classification |-> "processing_error", confidence |-> 0,
          reasoning |-> "LLM call failed"]
    ELSE IF ~resp.content.json
         THEN [classification |-> "parsing_error", confidence |-> 0,
               reasoning |-> "Failed to parse JSON response"]
         ELSE [classification |-> validated(resp.content.classification),
               confidence |-> resp.content.confidence]

(* ---------------- the classification task ---------------- *)

\* "@celery_app.task(bind=True, max_retries=3)"
max_retries == 3

\* "task_time_limit=300" and "task_soft_time_limit=240"
task_time_limit == 300
task_soft_time_limit == 240

\* "--concurrency=2": the worker processes of the pool
concurrency == 2
Workers == 1..concurrency

\* a call that returned a dict, and a call that raised an exception
Returned(r) == [raised |-> FALSE, result |-> r]
Raises(e) == [raised |-> TRUE, exc |-> e]

\* self.request of the first delivery of a task
FirstRequest == [id |-> 1, retries |-> 0]

\* classify_pdf around classify_with_llm: "except Exception as e" turns an
\* exception into a 'processing_error' result
classify_pdf(llm) ==
    IF llm.raised
    THEN Returned([classification |-> "processing_error", confidence |-> 0,
                   reasoning |-> "PDF processing failed", industry |-> "finance"])
    ELSE Returned(Put(llm.result, "industry", "finance"))

\* the countdown without the exponent: task_default_retry_delay
retry_countdown_default(retries) == 60

\* "countdown = 60 * (2 ** self.request.retries)"
retry_countdown(retries) == 60 * 2 ^ retries

\* classify_document_async around process_file: the result is returned with
\* the task id added, an exception goes to self.retry
classify_document_async(processed, request) ==
    IF processed.raised
    THEN [kind |-> "retry", exc |-> processed.exc,
          countdown |-> retry_countdown(request.retries)]
    ELSE [kind |-> "return", result |-> Put(processed.result, "task_id", request.id)]

\* what process_file returns: a label, or the error marker of a processor
ProcessFileResults ==
    { [classification |-> "invoice", confidence |-> 95, industry |-> "finance"],
      [classification |-> "processing_error", confidence |-> 0,
       reasoning |-> "PDF processing failed", industry |-> "finance"] }

\* the exception the body of classify_document_async raises in the attempt
\* of a request: its message differs from attempt to attempt
TaskError(request) == [error |-> "Exception", attempt |-> request.retries + 1]

\* how process_file ends in the task body of a request
ProcessFileOutcomes(request) ==
    { Returned(r) : r \in ProcessFileResults } \cup { Raises(TaskError(request)) }

\* the soft time limit raises SoftTimeLimitExceeded in the task: inside the
\* try block of a processor, inside the try block of an LLM call (which
\* returns success False, and the classification goes on), or in the task
\* body itself
SoftLimitPlaces == {"processor", "llm_call", "task"}
SoftTimeLimitExceeded == [error |-> "SoftTimeLimitExceeded"]
TimeLimitExceeded == [error |-> "TimeLimitExceeded"]

\* the task message of a request
Message(id, retries, eta) == [id |-> id, retries |-> retries, eta |-> eta]

\* the stored state of a task
Meta(status, res) == [status |-> status, result |-> res]

\* self.retry with max_retries one lower
retry_one_less(request, exc, countdown, t) ==
    IF request.retries + 1 > max_retries - 1
    THEN [failed |-> TRUE, exc |-> exc]
    ELSE [failed |-> FALSE,
          message |-> Message(request.id, request.retries + 1, t + countdown)]

\* "raise self.retry(exc=exc, countdown=countdown)" on a task with
\* max_retries=3: the task is sent again with an eta, or exc is raised when
\* the retries are used up
retry(request, exc, countdown, t) ==
    IF request.retries + 1 > max_retries
    THEN [failed |-> TRUE, exc |-> exc]
    ELSE [failed |-> FALSE,
          message |-> Message(request.id, request.retries + 1, t + countdown)]

\* AsyncResult.state: PENDING when the backend knows nothing of the id
task_state(tasks, task_id) ==
    IF tasks[task_id] = None THEN "PENDING" ELSE tasks[task_id].status

\* AsyncResult.info: what the backend stores with the state; for RETRY and
\* FAILURE it is the exception
task_info(tasks, task_id) ==
    IF tasks[task_id] = None THEN None ELSE tasks[task_id].result

\* get_task_result with a task awaiting its retry counted as ready
get_task_result_retry_ready(tasks, task_id) ==
    IF task_state(tasks, task_id) \in {"SUCCESS", "FAILURE", "RETRY"}
    THEN IF task_state(tasks, task_id) = "SUCCESS"
         THEN [status |-> "completed", result |-> tasks[task_id].result,
               task_id |-> task_id]
         ELSE [status |-> "failed", error |-> tasks[task_id].result,
               task_id |-> task_id]
    ELSE [status |-> "processing", state |-> task_state(tasks, task_id),
          info |-> task_info(tasks, task_id), task_id |-> task_id]

\* get_task_result that only tests task.successful()
get_task_result_success_only(tasks, task_id) ==
    IF task_state(tasks, task_id) = "SUCCESS"
    THEN [status |-> "completed", result |-> tasks[task_id].result,
          task_id |-> task_id]
    ELSE [status |-> "processing", state |-> task_state(tasks, task_id),
          info |-> task_info(tasks, task_id), task_id |-> task_id]

\* get_task_result: task.ready() / task.successful()
get_task_result(tasks, task_id) ==
    IF task_state(tasks, task_id) \in {"SUCCESS", "FAILURE"}
    THEN IF task_state(tasks, task_id) = "SUCCESS"
         THEN [status |-> "completed", result |-> tasks[task_id].result,
               task_id |-> task_id]
         ELSE [status |-> "failed", error |-> tasks[task_id].result,
               task_id |-> task_id]
    ELSE [status |-> "processing", state |-> task_state(tasks, task_id),
          info |-> task_info(tasks, task_id), task_id |-> task_id]

(* ---------------- the provider adapters ---------------- *)

\* JSON values of a provider answer: a string, a number, null; Absent stands
\* for a key the object does not have
JStr(x) == [str |-> x]
JNum(n) == [num |-> n]
JNull == [null |-> TRUE]
Absent == [absent |-> TRUE]

\* result.get(key, default)
dict_get(v, default) == IF v = Absent THEN default ELSE v

\* float(v): a number, or a ValueError / TypeError
float(v) ==
    CASE "num" \in DOMAIN v -> [ok |-> TRUE, value |-> v.num]
      [] v = JStr("0.9") -> [ok |-> TRUE, value |-> 90]
      [] "str" \in DOMAIN v ->
            [ok |-> FALSE, text |-> "could not convert string to float"]
      [] OTHER ->
            [ok |-> FALSE, text |-> "float() argument must be a string or a real number"]

\* the JSON objects a provider can answer with
ClassificationFields == {Absent, JStr("invoice"), JNum(42), JNull}
ConfidenceFields == {Absent, JNum(95), JStr("0.9"), JStr("high"), JNull}
JsonObjects ==
    [classification : ClassificationFields, confidence : ConfidenceFields]

\* the OpenAI client is used by _call_openai_gpt4o_mini and _call_openai_gpt4o,
\* aiohttp by _call_google_gemini and _call_anthropic_claude
UsesAiohttp(provider) == provider \in {GOOGLE_GEMINI, ANTHROPIC_CLAUDE}

\* what the call to a provider can end with: an exception of the client (a
\* network error, a timeout: aiohttp raises asyncio.TimeoutError, whose text is
\* empty), a status other than 200 (the OpenAI client raises, aiohttp hands
\* the response over, with a JSON body or not), or a 200 answer whose content
\* is missing, is no JSON, is a JSON list, or is a JSON object
Replies(provider) ==
    { [kind |-> "raise", cause |-> "network", text |-> "Connection error."],
      [kind |-> "raise", cause |-> "timeout",
       text |-> IF UsesAiohttp(provider) THEN "" ELSE "Request timed out."] }
    \cup (IF UsesAiohttp(provider)
          THEN { [kind |-> "status", code |-> c, json_body |-> j] :
                    c \in {429, 500}, j \in BOOLEAN }
          ELSE { [kind |-> "raise", cause |-> "status", text |-> "Error code: 429"] })
    \cup { [kind |-> "ok", content |-> c] : c \in {"missing", "not_json", "json_list"} }
    \cup { [kind |-> "ok", content |-> "object", object |-> o] : o \in JsonObjects }

AdapterModel(provider) ==
    CASE provider = OPENAI_GPT4O_MINI -> "gpt-4o-mini"
      [] provider = OPENAI_GPT4O -> "gpt-4o"
      [] OTHER -> BackupModel(provider)

\* "except Exception as e: return {'success': False, 'error': str(e)}"
adapter_failure(text) == [success |-> FALSE, error |-> text]

\* one of the four _call_* adapters on what the provider did
adapter(provider, reply) ==
    CASE reply.kind = "raise" -> adapter_failure(reply.text)
      [] reply.kind = "status" ->
            IF reply.json_body
            THEN adapter_failure("API error")
            ELSE adapter_failure("Attempt to decode JSON with unexpected mimetype")
      [] reply.content = "missing" -> adapter_failure("'candidates'")
      [] reply.content = "not_json" -> adapter_failure("Expecting value: line 1 column 1 (char 0)")
      [] reply.content = "json_list" -> adapter_failure("'list' object has no attribute 'get'")
      [] OTHER ->
            LET confidence == float(dict_get(reply.object.confidence, JNum(0))) IN
            IF confidence.ok
            THEN [success |-> TRUE,
                  classification |-> dict_get(reply.object.classification, JStr("unknown")),
                  confidence |-> confidence.value,
                  model |-> AdapterModel(provider)]
            ELSE adapter_failure(confidence.text)

(* ---------------- the poll endpoint ---------------- *)

\* what the result backend can hold for a task id
BackendMetas ==
    { None, Meta("STARTED", None),
      Meta("RETRY", [error |-> "Exception", attempt |-> 1]),
      Meta("FAILURE", [error |-> "Exception", attempt |-> 4]),
      Meta("FAILURE", TimeLimitExceeded) }
    \cup { Meta("SUCCESS", Put(r, "task_id", 1)) : r \in ProcessFileResults }

\* an exception object, as AsyncResult.info gives it for RETRY
is_exception(v) == "error" \in DOMAIN v

\* jsonify(result) raises TypeError on a dict that holds an exception object
jsonify_raises(body) ==
    /\ "info" \in DOMAIN body
    /\ is_exception(body.info)

\* the except block of get_classification_result
endpoint_error(e, task_id) ==
    [code |-> 500,
     body |-> [error |-> [text |-> "Failed to get task result", cause |-> e],
               task_id |-> task_id]]

\* get_classification_result: lookup is what get_task_result returned or raised
get_classification_result(async_enabled, lookup, task_id) ==
    IF ~async_enabled
    THEN [code |-> 503, body |-> [error |-> "Async processing not available"]]
    ELSE IF lookup.raised
         THEN endpoint_error(lookup.exc, task_id)
         ELSE IF jsonify_raises(lookup.result)
              THEN endpoint_error("Object is not JSON serializable", task_id)
              ELSE [code |-> CASE lookup.result.status = "completed" -> 200
                               [] lookup.result.status = "failed" -> 500
                               [] OTHER -> 202,
                    body |-> lookup.result]

(* ---------------- initial state ---------------- *)

Init ==
    /\ provider_health = [p \in LLMProvider |-> [failures |-> 0, last_failure |-> 0]]
    /\ backup_providers \in [{GOOGLE_GEMINI, ANTHROPIC_CLAUDE} -> [enabled : BOOLEAN]]
    /\ now = 0
    /\ last_call = NoCall
    /\ recorded = [p \in LLMProvider |-> [count |-> 0, at |-> 0]]
    /\ pc = "idle"
    /\ result = None
    /\ upgrade_result = None
    /\ backup_result = None
    /\ chain = NoChain
    /\ trace = <<>>
    /\ answers = NoAnswers
    /\ llm_response = None
    /\ classified = None
    /\ task_outcome = None
    /\ broker = {}
    /\ backend = [id \in JobIds |-> None]
    /\ running = [w \in Workers |-> None]
    /\ submitted = {}
    /\ executions = [id \in JobIds |-> 0]
    /\ failure_log = [id \in JobIds |-> None]
    /\ pool_health = [w \in Workers |->
                        [p \in LLMProvider |-> [failures |-> 0, last_failure |-> 0]]]
    /\ adapter_call = None
    /\ http_response = None

(* ---------------- the health methods called directly ---------------- *)

IsProviderHealthy(p) ==
    /\ provider_health' = is_provider_healthy_effect(provider_health, p, now)
    /\ last_call' = [op |-> "is_provider_healthy", provider |-> p,
                     ret |-> is_provider_healthy(provider_health, p, now),
                     was |-> provider_health[p].failures,
                     turn |-> 1 - last_call.turn]
    /\ recorded' = IF recorded[p].count >= FailureLimit /\ now - recorded[p].at > CooldownSecs
                   THEN [recorded EXCEPT ![p].count = 0]
                   ELSE recorded
    /\ UNCHANGED <<now, backup_providers, job_vars, worker_vars, edge_vars>>

RecordSuccess(p) ==
    /\ provider_health' = record_success(provider_health, p)
    /\ last_call' = [op |-> "record_success", provider |-> p,
                     was |-> provider_health[p].failures,
                     turn |-> 1 - last_call.turn]
    /\ recorded' = [recorded EXCEPT ![p].count = 0]
    /\ UNCHANGED <<now, backup_providers, job_vars, worker_vars, edge_vars>>

RecordFailure(p) ==
    /\ provider_health[p].failures < MaxFailures
    /\ provider_health' = record_failure(provider_health, p, now)
    /\ last_call' = [op |-> "record_failure", provider |-> p,
                     was |-> provider_health[p].failures,
                     turn |-> 1 - last_call.turn]
    /\ recorded' = [recorded EXCEPT ![p] = [count |-> @.count + 1, at |-> now]]
    /\ UNCHANGED <<now, backup_providers, job_vars, worker_vars, edge_vars>>

\* time passes
Tick ==
    /\ \E d \in TickSteps :
          /\ now + d <= MaxTime
          /\ now' = now + d
    /\ UNCHANGED <<provider_health, backup_providers, health_vars, job_vars, worker_vars, edge_vars>>

NextHealth ==
    \/ \E p \in Probed : IsProviderHealthy(p)
    \/ \E p \in Probed : RecordSuccess(p)
    \/ \E p \in Probed : RecordFailure(p)
    \/ Tick

\* the health methods exercised on an instance built with every API key set
InitHealth ==
    /\ Init
    /\ \A b \in DOMAIN backup_providers : backup_providers[b].enabled

SpecHealth == InitHealth /\ [][NextHealth]_vars

(* ---------------- one classification, step by step ---------------- *)

\* classify_with_confidence_upgrade returns or raises into classify_with_llm:
\* a returned response is validated and returned, a raised one falls back to
\* call_vision_llm
Finish(resp) ==
    /\ llm_response' = resp
    /\ IF resp = Raised
       THEN /\ pc' = "await_vision_llm"
            /\ classified' = None
            /\ task_outcome' = None
       ELSE /\ pc' = "returned"
            /\ classified' = classify_result(resp)
            /\ task_outcome' = classify_document_async(
                                    classify_pdf(Returned(classify_result(resp))), FirstRequest)

\* _try_backup_providers runs from position i until it awaits an adapter or
\* returns None
TryBackupProviders(caller, i, health, tr, res, up) ==
    LET sel == select_backup(i, health, backup_providers, now) IN
    /\ provider_health' = sel.health
    /\ trace' = tr \o sel.events
    /\ IF sel.index # 0
       THEN /\ pc' = "await_backup"
            /\ chain' = [caller |-> caller, index |-> sel.index]
            /\ UNCHANGED <<backup_result, llm_response, classified, task_outcome>>
       ELSE /\ chain' = [caller |-> caller, index |-> 0]
            /\ backup_result' = None
            /\ Finish(after_backups(caller, None, res, up))

\* classify_with_llm is called and awaits the primary adapter
ClassifyWithLLM ==
    /\ pc \in {"idle", "returned"}
    /\ pc' = "await_gpt4o_mini"
    /\ trace' = <<Call(OPENAI_GPT4O_MINI)>>
    /\ answers' = NoAnswers
    /\ result' = None
    /\ upgrade_result' = None
    /\ backup_result' = None
    /\ chain' = NoChain
    /\ llm_response' = None
    /\ classified' = None
    /\ task_outcome' = None
    /\ UNCHANGED <<provider_health, backup_providers, now, health_vars, worker_vars, edge_vars>>

\* _call_openai_gpt4o_mini returns
Gpt4oMiniReturns(res) ==
    /\ pc = "await_gpt4o_mini"
    /\ answers' = [answers EXCEPT ![OPENAI_GPT4O_MINI] = res]
    /\ IF res.success
       THEN LET health == record_success(provider_health, OPENAI_GPT4O_MINI)
                tr == Append(trace, Success(OPENAI_GPT4O_MINI))
            IN  IF ~should_upgrade(res, ConfidenceThreshold)
                THEN /\ result' = res
                     /\ Finish(primary_result(res))
                     /\ provider_health' = health
                     /\ trace' = tr
                     /\ UNCHANGED <<upgrade_result, backup_result, chain>>
                ELSE /\ result' = res
                     /\ pc' = "await_gpt4o"
                     /\ provider_health' = health
                     /\ trace' = Append(tr, Call(OPENAI_GPT4O))
                     /\ UNCHANGED <<upgrade_result, backup_result, chain,
                                    llm_response, classified, task_outcome>>
       ELSE \* record_failure in the else branch, then again in the except block
            /\ provider_health[OPENAI_GPT4O_MINI].failures + 2 <= MaxFailures
            /\ result' = res
            /\ TryBackupProviders("primary_failed", 1,
                    record_failure(record_failure(provider_health, OPENAI_GPT4O_MINI, now),
                                   OPENAI_GPT4O_MINI, now),
                    trace \o <<Failure(OPENAI_GPT4O_MINI), Failure(OPENAI_GPT4O_MINI),
                               Chain("primary_failed")>>,
                    res, None)
            /\ UNCHANGED upgrade_result
    /\ UNCHANGED <<backup_providers, now, health_vars, worker_vars, edge_vars>>

\* _call_openai_gpt4o returns
Gpt4oReturns(up) ==
    /\ pc = "await_gpt4o"
    /\ answers' = [answers EXCEPT ![OPENAI_GPT4O] = up]
    /\ IF up.success
       THEN LET health == record_success(provider_health, OPENAI_GPT4O)
                tr == Append(trace, Success(OPENAI_GPT4O))
                upgraded == upgraded_result(up, result)
            IN  /\ upgrade_result' = upgraded
                /\ IF Get(upgraded, "classification", None) = "unknown"
                   THEN TryBackupProviders("still_unknown", 1, health,
                            Append(tr, Chain("still_unknown")), result, upgraded)
                   ELSE /\ Finish(upgraded)
                        /\ provider_health' = health
                        /\ trace' = tr
                        /\ UNCHANGED <<backup_result, chain>>
       ELSE /\ upgrade_result' = up
            /\ TryBackupProviders("upgrade_failed", 1, provider_health,
                    Append(trace, Chain("upgrade_failed")), result, up)
    /\ UNCHANGED <<result, backup_providers, now, health_vars, worker_vars, edge_vars>>

\* _call_google_gemini / _call_anthropic_claude returns
BackupReturns(res) ==
    /\ pc = "await_backup"
    /\ LET provider == backup_order[chain.index] IN
       /\ res \in BackupResults(provider)
       /\ answers' = [answers EXCEPT ![provider] = res]
       /\ IF res.success
          THEN /\ provider_health' = record_success(provider_health, provider)
               /\ trace' = Append(trace, Success(provider))
               /\ backup_result' = backup_success(res, provider)
               /\ Finish(after_backups(chain.caller, backup_success(res, provider),
                                       result, upgrade_result))
               /\ UNCHANGED chain
          ELSE /\ provider_health[provider].failures < MaxFailures
               /\ TryBackupProviders(chain.caller, chain.index + 1,
                       record_failure(provider_health, provider, now),
                       Append(trace, Failure(provider)), result, upgrade_result)
    /\ UNCHANGED <<result, upgrade_result, backup_providers, now, health_vars, worker_vars, edge_vars>>

\* call_vision_llm returns and parse_llm_response builds the result
VisionLLMReturns(resp) ==
    /\ pc = "await_vision_llm"
    /\ pc' = "returned"
    /\ classified' = parse_llm_response(resp)
    /\ task_outcome' = classify_document_async(
                            classify_pdf(Returned(parse_llm_response(resp))), FirstRequest)
    /\ answers' = [answers EXCEPT ![VISION_LLM] = resp]
    /\ UNCHANGED <<provider_health, backup_providers, now, health_vars, worker_vars, edge_vars,
                   result, upgrade_result, backup_result, chain, trace, llm_response>>

Next ==
    \/ ClassifyWithLLM
    \/ \E res \in MiniResults : Gpt4oMiniReturns(res)
    \/ \E up \in Gpt4oResults : Gpt4oReturns(up)
    \/ \E res \in BackupResults(GOOGLE_GEMINI) \cup BackupResults(ANTHROPIC_CLAUDE) :
          BackupReturns(res)
    \/ \E resp \in VisionResults : VisionLLMReturns(resp)
    \/ Tick

Spec == Init /\ [][Next]_vars

(* ---------------- provider health in the worker pool ---------------- *)

\* every worker process of the pool imports multi_provider_llm and so has its
\* own MultiProviderLLM instance; the job a process executes calls the health
\* methods of that instance

\* the job executed by worker process w reports a failure of provider p
JobRecordsFailure(w, p) ==
    /\ pool_health[w][p].failures < MaxFailures
    /\ pool_health' = [pool_health EXCEPT ![w] = record_failure(@, p, now)]
    /\ recorded' = [recorded EXCEPT ![p] = [count |-> @.count + 1, at |-> now]]
    /\ UNCHANGED <<provider_health, backup_providers, now, last_call, job_vars, edge_vars, celery_vars>>

\* the job executed by worker process w reports a success of provider p
JobRecordsSuccess(w, p) ==
    /\ pool_health' = [pool_health EXCEPT ![w] = record_success(@, p)]
    /\ recorded' = [recorded EXCEPT ![p].count = 0]
    /\ UNCHANGED <<provider_health, backup_providers, now, last_call, job_vars, edge_vars, celery_vars>>

\* the job executed by worker process w asks whether provider p is healthy
JobChecksHealth(w, p) ==
    /\ pool_health' = [pool_health EXCEPT ![w] = is_provider_healthy_effect(@, p, now)]
    /\ recorded' = IF recorded[p].count >= FailureLimit /\ now - recorded[p].at > CooldownSecs
                   THEN [recorded EXCEPT ![p].count = 0]
                   ELSE recorded
    /\ UNCHANGED <<provider_health, backup_providers, now, last_call, job_vars, edge_vars, celery_vars>>

\* the provider every job calls first
PoolProbed == {OPENAI_GPT4O_MINI}

NextPool ==
    \/ \E w \in Workers, p \in PoolProbed : JobRecordsFailure(w, p)
    \/ \E w \in Workers, p \in PoolProbed : JobRecordsSuccess(w, p)
    \/ \E w \in Workers, p \in PoolProbed : JobChecksHealth(w, p)
    \/ Tick

SpecPool == InitHealth /\ [][NextPool]_vars

(* ---------------- the task queue ---------------- *)

\* submit_classification_task: classify_document_async.delay(...) sends the
\* task under a fresh id
SubmitClassificationTask(id) ==
    /\ id \notin submitted
    /\ id = Cardinality(submitted) + 1
    /\ submitted' = submitted \cup {id}
    /\ broker' = broker \cup {Message(id, 0, 0)}
    /\ UNCHANGED <<provider_health, backup_providers, now, health_vars, job_vars, edge_vars,
                   backend, running, executions, failure_log, pool_health>>

\* StartTask with the message left in the broker for other workers
StartTask_keeps_message(w, m) ==
    /\ running[w] = None
    /\ m \in broker
    /\ m.eta <= now
    /\ executions[m.id] < max_retries + 1
    /\ running' = [running EXCEPT ![w] =
                      [id |-> m.id, retries |-> m.retries, started |-> now, soft |-> FALSE]]
    /\ backend' = [backend EXCEPT ![m.id] = Meta("STARTED", None)]
    /\ executions' = [executions EXCEPT ![m.id] = @ + 1]
    /\ UNCHANGED <<provider_health, backup_providers, now, health_vars, job_vars, edge_vars,
                   broker, submitted, failure_log, pool_health>>

\* a free worker process takes a message whose eta has come and starts the
\* task body (task_track_started)
StartTask(w, m) ==
    /\ running[w] = None
    /\ m \in broker
    /\ m.eta <= now
    /\ broker' = broker \ {m}
    /\ running' = [running EXCEPT ![w] =
                      [id |-> m.id, retries |-> m.retries, started |-> now, soft |-> FALSE]]
    /\ backend' = [backend EXCEPT ![m.id] = Meta("STARTED", None)]
    /\ executions' = [executions EXCEPT ![m.id] = @ + 1]
    /\ UNCHANGED <<provider_health, backup_providers, now, health_vars, job_vars, edge_vars,
                   submitted, failure_log, pool_health>>

\* the task body of the request of worker w ends with outcome out: a returned
\* result is stored, an exception goes through self.retry
TaskEnds(w, out) ==
    LET request == running[w] IN
    /\ running' = [running EXCEPT ![w] = None]
    /\ IF out.kind = "return"
       THEN /\ backend' = [backend EXCEPT ![request.id] = Meta("SUCCESS", out.result)]
            /\ UNCHANGED <<broker, failure_log>>
       ELSE LET again == retry(request, out.exc, out.countdown, now) IN
            /\ failure_log' = [failure_log EXCEPT ![request.id] =
                                  [at |-> now, attempt |-> request.retries + 1,
                                   exc |-> out.exc]]
            /\ IF again.failed
               THEN /\ backend' = [backend EXCEPT ![request.id] = Meta("FAILURE", again.exc)]
                    /\ UNCHANGED broker
               ELSE /\ again.message.eta <= MaxTime
                    /\ backend' = [backend EXCEPT ![request.id] = Meta("RETRY", out.exc)]
                    /\ broker' = broker \cup {again.message}
    /\ UNCHANGED <<provider_health, backup_providers, now, health_vars, job_vars, edge_vars,
                   submitted, executions, pool_health>>

\* process_file returns or raises in the task body of worker w
ProcessFileEnds(w, processed) ==
    /\ running[w] # None
    /\ processed \in ProcessFileOutcomes(running[w])
    /\ \/ now - running[w].started < task_soft_time_limit
       \/ running[w].soft /\ now - running[w].started < task_time_limit
    /\ TaskEnds(w, classify_document_async(processed, running[w]))

\* the soft time limit of the task of worker w expires
SoftTimeLimit(w, place) ==
    /\ running[w] # None
    /\ ~running[w].soft
    /\ now - running[w].started >= task_soft_time_limit
    /\ CASE place = "processor" ->
               TaskEnds(w, classify_document_async(
                              classify_pdf(Raises(SoftTimeLimitExceeded)), running[w]))
         [] place = "task" ->
               TaskEnds(w, classify_document_async(Raises(SoftTimeLimitExceeded), running[w]))
         [] OTHER ->
               /\ running' = [running EXCEPT ![w].soft = TRUE]
               /\ UNCHANGED <<provider_health, backup_providers, now, health_vars, job_vars, edge_vars,
                              broker, backend, submitted, executions, failure_log,
                              pool_health>>

\* HardTimeLimit with the message of the killed task put back in the broker
HardTimeLimit_requeues(w) ==
    /\ running[w] # None
    /\ now - running[w].started >= task_time_limit
    /\ executions[running[w].id] < max_retries + 1
    /\ running' = [running EXCEPT ![w] = None]
    /\ backend' = [backend EXCEPT ![running[w].id] = Meta("FAILURE", TimeLimitExceeded)]
    /\ broker' = broker \cup {Message(running[w].id, running[w].retries, 0)}
    /\ pool_health' = [pool_health EXCEPT ![w] =
                          [p \in LLMProvider |-> [failures |-> 0, last_failure |-> 0]]]
    /\ UNCHANGED <<provider_health, backup_providers, now, health_vars, job_vars, edge_vars,
                   submitted, executions, failure_log>>

\* the hard time limit of the task of worker w expires: the worker process is
\* killed and replaced, the task is stored as failed
HardTimeLimit(w) ==
    /\ running[w] # None
    /\ now - running[w].started >= task_time_limit
    /\ running' = [running EXCEPT ![w] = None]
    /\ backend' = [backend EXCEPT ![running[w].id] = Meta("FAILURE", TimeLimitExceeded)]
    /\ pool_health' = [pool_health EXCEPT ![w] =
                          [p \in LLMProvider |-> [failures |-> 0, last_failure |-> 0]]]
    /\ UNCHANGED <<provider_health, backup_providers, now, health_vars, job_vars, edge_vars,
                   broker, submitted, executions, failure_log>>

\* time passes, up to the next time limit of a running task
Elapse ==
    /\ now + ElapseStep <= MaxTime
    /\ \A w \in Workers :
          running[w] # None =>
             \/ now - running[w].started < task_soft_time_limit
             \/ running[w].soft /\ now - running[w].started < task_time_limit
    /\ now' = now + ElapseStep
    /\ UNCHANGED <<provider_health, backup_providers, health_vars, job_vars, worker_vars, edge_vars>>

NextJobs ==
    \/ \E id \in JobIds : SubmitClassificationTask(id)
    \/ \E w \in Workers, m \in broker : StartTask(w, m)
    \/ \E w \in Workers :
          /\ running[w] # None
          /\ \E processed \in ProcessFileOutcomes(running[w]) : ProcessFileEnds(w, processed)
    \/ \E w \in Workers, place \in SoftLimitPlaces : SoftTimeLimit(w, place)
    \/ \E w \in Workers : HardTimeLimit(w)
    \/ Elapse

SpecJobs == InitHealth /\ [][NextJobs]_vars

\* the task of worker w comes to an end: its calls terminate, and the time
\* limits are enforced
Finishes(w) ==
    \/ /\ running[w] # None
       /\ \E processed \in ProcessFileOutcomes(running[w]) : ProcessFileEnds(w, processed)
    \/ \E place \in SoftLimitPlaces : SoftTimeLimit(w, place)
    \/ HardTimeLimit(w)

\* the queue with a pool that keeps taking tasks, tasks that end, and time
\* that passes
FairSpecJobs ==
    /\ SpecJobs
    /\ WF_vars(\E w \in Workers, m \in broker : StartTask(w, m))
    /\ \A w \in Workers : WF_vars(Finishes(w))
    /\ WF_vars(Elapse)

(* ---------------- adapters and endpoint, call by call ---------------- *)

\* an adapter is called and the provider does reply
CallAdapter(provider, reply) ==
    /\ reply \in Replies(provider)
    /\ adapter_call' = [provider |-> provider, reply |-> reply,
                        returned |-> adapter(provider, reply)]
    /\ UNCHANGED <<provider_health, backup_providers, now, health_vars, job_vars,
                   worker_vars, http_response>>

\* GET /classification_result/<task_id> with the backend holding meta for the
\* id, or with the backend out of reach
GetClassificationResult(async_enabled, meta, reachable) ==
    LET task_id == 1
        lookup == IF reachable
                  THEN Returned(get_task_result([id \in {task_id} |-> meta], task_id))
                  ELSE Raises("Error connecting to redis")
    IN
    /\ http_response' = [async_enabled |-> async_enabled, meta |-> meta,
                         reachable |-> reachable,
                         response |-> get_classification_result(async_enabled, lookup,
                                                                task_id)]
    /\ UNCHANGED <<provider_health, backup_providers, now, health_vars, job_vars,
                   worker_vars, adapter_call>>

NextEdge ==
    \/ \E provider \in LLMProvider : \E reply \in Replies(provider) :
          CallAdapter(provider, reply)
    \/ \E async_enabled \in BOOLEAN, meta \in BackendMetas, reachable \in BOOLEAN :
          GetClassificationResult(async_enabled, meta, reachable)

SpecEdge == InitHealth /\ [][NextEdge]_vars

(* ======================= properties ======================= *)

\* the step is a direct call of the health method op on provider p
HealthCall(op, p) ==
    /\ last_call'.turn # last_call.turn
    /\ last_call'.op = op
    /\ last_call'.provider = p

Backups == {GOOGLE_GEMINI, ANTHROPIC_CLAUDE}

\* positions of the trace at which the adapter of provider p is called
CallsTo(p) == {k \in 1..Len(trace) : trace[k] = Call(p)}

\* the adapter of provider a has returned a parsed answer
Answered(a) == answers[a] # None /\ answers[a].success

\* the primary attempt succeeded and needs no upgrade
PrimaryAccepted ==
    /\ Answered(OPENAI_GPT4O_MINI)
    /\ answers[OPENAI_GPT4O_MINI].confidence >= 80
    /\ answers[OPENAI_GPT4O_MINI].classification # "unknown"

\* the primary attempt succeeded and meets the escalation condition
EscalationDue ==
    /\ Answered(OPENAI_GPT4O_MINI)
    /\ \/ answers[OPENAI_GPT4O_MINI].confidence < 80
       \/ answers[OPENAI_GPT4O_MINI].classification = "unknown"

\* C1: when the primary attempt succeeds with confidence >= the threshold
\* (equality included) and a label other than 'unknown', neither the GPT-4o
\* adapter nor a backup adapter is called, and the result returned has
\* provider_used = 'openai_gpt4o_mini' and upgraded = false.
C1_NoEscalationWhenConfident ==
    PrimaryAccepted =>
       /\ \A p \in LLMProvider \ {OPENAI_GPT4O_MINI} : CallsTo(p) = {}
       /\ llm_response # None
       /\ llm_response # Raised
       /\ llm_response.provider_used = "openai_gpt4o_mini"
       /\ llm_response.upgraded = FALSE

C1_Witness ==
    /\ PrimaryAccepted
    /\ answers[OPENAI_GPT4O_MINI].confidence = 80
    /\ pc = "returned"
    /\ llm_response.classification = answers[OPENAI_GPT4O_MINI].classification

\* C2: when the primary attempt succeeds with confidence below the threshold
\* or with the label 'unknown', the GPT-4o adapter is called exactly once, and
\* before every call of a backup adapter in that classification.
C2_OneEscalationBeforeBackups ==
    EscalationDue =>
       /\ Cardinality(CallsTo(OPENAI_GPT4O)) = 1
       /\ \A b \in Backups : \A k \in CallsTo(b) :
             \A q \in CallsTo(OPENAI_GPT4O) : q < k

C2_Witness ==
    /\ EscalationDue
    /\ answers[OPENAI_GPT4O_MINI].classification = "unknown"
    /\ answers[OPENAI_GPT4O_MINI].confidence >= 80
    /\ CallsTo(OPENAI_GPT4O) # {}
    /\ CallsTo(GOOGLE_GEMINI) # {}
    /\ CallsTo(ANTHROPIC_CLAUDE) # {}

\* C3: is_provider_healthy returns true while fewer than 3 failures have been
\* recorded for the provider since its last success or cooldown reset, and
\* returns false when exactly 3 have been recorded, with no record_success in
\* between, and no more than 300 s have passed since the last of them.
C3_HealthyBelowThreeFailures ==
    [][\A p \in LLMProvider :
          HealthCall("is_provider_healthy", p) =>
             /\ recorded[p].count < 3 => last_call'.ret = TRUE
             /\ (recorded[p].count = 3 /\ now - recorded[p].at <= 300)
                   => last_call'.ret = FALSE]_vars

C3_Witness ==
    /\ last_call.op = "is_provider_healthy"
    /\ last_call.ret = FALSE
    /\ recorded[last_call.provider].count = 3
    /\ now - recorded[last_call.provider].at = 300

\* C4: whatever the failure count and last-failure time of a provider, one
\* record_success sets its count to 0, and an is_provider_healthy that follows
\* it for that provider returns true.
C4_SuccessRestoresHealth ==
    [][\A p \in LLMProvider :
          /\ HealthCall("record_success", p) => provider_health'[p].failures = 0
          /\ (/\ last_call.op = "record_success"
              /\ last_call.provider = p
              /\ HealthCall("is_provider_healthy", p)) => last_call'.ret = TRUE]_vars

C4_Witness ==
    /\ last_call.op = "record_success"
    /\ last_call.was >= 3
    /\ provider_health[last_call.provider].failures = 0
    /\ now - provider_health[last_call.provider].last_failure < CooldownSecs

\* C5: for a provider whose failure count is 3 or more, is_provider_healthy
\* called more than 300 s after the last failure returns true and sets the
\* count to 0; called 300 s or less after it, it returns false and leaves the
\* count as it is.
C5_CooldownBoundary ==
    [][\A p \in LLMProvider :
          (HealthCall("is_provider_healthy", p) /\ provider_health[p].failures >= 3) =>
             IF now - provider_health[p].last_failure > 300
             THEN last_call'.ret = TRUE /\ provider_health'[p].failures = 0
             ELSE /\ last_call'.ret = FALSE
                  /\ provider_health'[p].failures = provider_health[p].failures]_vars

C5_Witness ==
    /\ last_call.op = "is_provider_healthy"
    /\ last_call.was >= 3
    /\ last_call.ret = TRUE
    /\ provider_health[last_call.provider].failures = 0
    /\ now - provider_health[last_call.provider].last_failure = CooldownSecs + 1

\* C6: in a run of the backup chain an adapter is called only right after
\* is_provider_healthy returned true for its provider; a backup for which it
\* returned false is not called in that run, and the chain goes on to the
\* next backup.
C6_UnhealthyBackupSkipped ==
    /\ \A b \in Backups : \A k \in CallsTo(b) :
          k > 1 /\ trace[k - 1] = Checked(b, TRUE)
    /\ \A k \in 1..Len(trace) : \A b \in Backups :
          trace[k] = Checked(b, FALSE) =>
             /\ \A j \in k..Len(trace) : trace[j] # Call(b)
             /\ (b = GOOGLE_GEMINI /\ backup_providers[ANTHROPIC_CLAUDE].enabled) =>
                   /\ k < Len(trace)
                   /\ trace[k + 1].e = "is_provider_healthy"
                   /\ trace[k + 1].provider = ANTHROPIC_CLAUDE

C6_Witness ==
    \E k \in 1..Len(trace) :
       /\ trace[k] = Checked(GOOGLE_GEMINI, FALSE)
       /\ k + 2 <= Len(trace)
       /\ trace[k + 1] = Checked(ANTHROPIC_CLAUDE, TRUE)
       /\ trace[k + 2] = Call(ANTHROPIC_CLAUDE)
       /\ Answered(ANTHROPIC_CLAUDE)

\* the state in which the adapter of provider p is awaited
Awaiting(p) ==
    CASE p = OPENAI_GPT4O_MINI -> pc = "await_gpt4o_mini"
      [] p = OPENAI_GPT4O -> pc = "await_gpt4o"
      [] OTHER -> pc = "await_backup" /\ backup_order[chain.index] = p

\* C7: every adapter call (primary, GPT-4o upgrade, each backup) is followed
\* by record_success or record_failure for the same provider before anything
\* else happens; in particular a failed GPT-4o call records a failure for
\* OPENAI_GPT4O.
C7_EveryCallRecorded ==
    \A k \in 1..Len(trace) :
       trace[k].e = "call" =>
          IF k = Len(trace)
          THEN Awaiting(trace[k].provider)
          ELSE trace[k + 1] \in {Success(trace[k].provider), Failure(trace[k].provider)}

\* what classify_with_llm may return as a label of the industry
Surfaceable == categories \cup {"unknown"}

C9_UpgradeResult ==
    (/\ EscalationDue
     /\ Answered(OPENAI_GPT4O)
     /\ answers[OPENAI_GPT4O].classification # "unknown") =>
       /\ llm_response # None
       /\ llm_response # Raised
       /\ llm_response.classification = answers[OPENAI_GPT4O].classification
       /\ llm_response.confidence = answers[OPENAI_GPT4O].confidence
       /\ llm_response.provider_used = "openai_gpt4o"
       /\ llm_response.upgraded = TRUE
       /\ llm_response.original_confidence = answers[OPENAI_GPT4O_MINI].confidence
       /\ llm_response.original_classification = answers[OPENAI_GPT4O_MINI].classification

C9_Witness ==
    /\ EscalationDue
    /\ Answered(OPENAI_GPT4O)
    /\ answers[OPENAI_GPT4O_MINI].classification = "unknown"
    /\ answers[OPENAI_GPT4O_MINI].confidence = 60
    /\ answers[OPENAI_GPT4O].classification = "invoice"
    /\ llm_response # None
    /\ llm_response.original_confidence = 60

\* the GPT-4o call succeeded and still answered 'unknown'
StillUnknown ==
    /\ EscalationDue
    /\ Answered(OPENAI_GPT4O)
    /\ answers[OPENAI_GPT4O].classification = "unknown"

\* backups that answered with a label other than 'unknown'
DecidingBackups ==
    {b \in Backups : Answered(b) /\ answers[b].classification # "unknown"}

\* C10: when the GPT-4o call succeeds with the label 'unknown', the backup
\* chain is attempted; if a backup succeeds with a label other than 'unknown'
\* its result is returned with upgraded = true, and otherwise (no healthy
\* backup, every backup fails, or the backup answers 'unknown') the GPT-4o
\* result is returned.
C10_StillUnknownTriesBackups ==
    StillUnknown =>
       /\ \E k \in 1..Len(trace) : trace[k] = Chain("still_unknown")
       /\ llm_response # None =>
             /\ llm_response # Raised
             /\ llm_response.upgraded = TRUE
             /\ IF DecidingBackups # {}
                THEN \E b \in DecidingBackups :
                        /\ llm_response.provider_used = b
                        /\ llm_response.classification = answers[b].classification
                        /\ llm_response.confidence = answers[b].confidence
                ELSE /\ llm_response.provider_used = "openai_gpt4o"
                     /\ llm_response.classification = "unknown"
                     /\ llm_response.confidence = answers[OPENAI_GPT4O].confidence

C10_Witness ==
    /\ StillUnknown
    /\ answers[GOOGLE_GEMINI] # None
    /\ ~answers[GOOGLE_GEMINI].success
    /\ ANTHROPIC_CLAUDE \in DecidingBackups
    /\ llm_response # None
    /\ llm_response.provider_used = "anthropic_claude"
    /\ llm_response.upgraded = TRUE

\* the escalation was due and the GPT-4o call failed
QualityFailed ==
    /\ EscalationDue
    /\ answers[OPENAI_GPT4O] # None
    /\ ~answers[OPENAI_GPT4O].success

\* the adapter of provider a returned success False
FailedAnswer(a) == answers[a] # None /\ ~answers[a].success

\* C11: when the primary attempt succeeds, escalation is due and the GPT-4o
\* call fails, the backup chain is attempted; if a backup succeeds its result
\* is returned with is_backup = true; if none succeeds nothing is raised and
\* the primary result is returned with its label and confidence unchanged,
\* provider_used = 'openai_gpt4o_mini', upgraded = false, upgrade_failed = true.
C11_UpgradeFailedFallsBack ==
    QualityFailed =>
       /\ \E k \in 1..Len(trace) : trace[k] = Chain("upgrade_failed")
       /\ llm_response # None =>
             /\ llm_response # Raised
             /\ IF \E b \in Backups : Answered(b)
                THEN \E b \in Backups :
                        /\ Answered(b)
                        /\ Get(llm_response, "is_backup", FALSE) = TRUE
                        /\ llm_response.provider_used = b
                        /\ llm_response.classification = answers[b].classification
                        /\ llm_response.confidence = answers[b].confidence
                ELSE /\ llm_response.classification =
                            answers[OPENAI_GPT4O_MINI].classification
                     /\ llm_response.confidence = answers[OPENAI_GPT4O_MINI].confidence
                     /\ llm_response.provider_used = "openai_gpt4o_mini"
                     /\ Get(llm_response, "upgraded", None) = FALSE
                     /\ Get(llm_response, "upgrade_failed", None) = TRUE
                     /\ Get(llm_response, "is_backup", FALSE) = FALSE

C11_Witness ==
    /\ QualityFailed
    /\ FailedAnswer(GOOGLE_GEMINI)
    /\ FailedAnswer(ANTHROPIC_CLAUDE)
    /\ llm_response # None
    /\ llm_response # Raised
    /\ llm_response.classification = "invoice"
    /\ llm_response.confidence = 60
    /\ Get(llm_response, "upgrade_failed", None) = TRUE

\* C12: when the primary attempt fails, the GPT-4o call is not made and the
\* backups are tried in the order Gemini, Claude: a backup that fails has a
\* failure recorded and the next enabled backup is checked (and called when
\* healthy); the first backup that succeeds is returned with is_backup = true
\* and provider_used = its id, and no backup is called after it.
C12_PrimaryFailedBackupOrder ==
    FailedAnswer(OPENAI_GPT4O_MINI) =>
       /\ CallsTo(OPENAI_GPT4O) = {}
       /\ \A i \in CallsTo(GOOGLE_GEMINI), j \in CallsTo(ANTHROPIC_CLAUDE) : i < j
       /\ \A b \in Backups :
             FailedAnswer(b) =>
                /\ provider_health[b].failures >= 1
                /\ \E k \in CallsTo(b) :
                      /\ k < Len(trace)
                      /\ trace[k + 1] = Failure(b)
                      /\ (b = GOOGLE_GEMINI /\ backup_providers[ANTHROPIC_CLAUDE].enabled) =>
                            /\ k + 2 <= Len(trace)
                            /\ trace[k + 2].e = "is_provider_healthy"
                            /\ trace[k + 2].provider = ANTHROPIC_CLAUDE
                            /\ trace[k + 2].ret =>
                                  /\ k + 3 <= Len(trace)
                                  /\ trace[k + 3] = Call(ANTHROPIC_CLAUDE)
       /\ \A b \in Backups :
             Answered(b) =>
                /\ trace[Len(trace)] = Success(b)
                /\ llm_response # Raised
                /\ llm_response.provider_used = b
                /\ Get(llm_response, "is_backup", FALSE) = TRUE
                /\ llm_response.classification = answers[b].classification

C12_Witness ==
    /\ FailedAnswer(OPENAI_GPT4O_MINI)
    /\ FailedAnswer(GOOGLE_GEMINI)
    /\ Answered(ANTHROPIC_CLAUDE)
    /\ llm_response # None
    /\ llm_response # Raised
    /\ llm_response.provider_used = "anthropic_claude"
    /\ Get(llm_response, "is_backup", FALSE) = TRUE

\* C13: when the primary attempt fails and no backup is enabled and healthy,
\* or every backup that is called fails, classify_with_confidence_upgrade
\* raises 'All LLM providers failed' and returns no result.
C13_AllProvidersFailedRaises ==
    (/\ FailedAnswer(OPENAI_GPT4O_MINI)
     /\ pc # "await_backup"
     /\ \A b \in Backups : ~Answered(b)) =>
       /\ llm_response = Raised
       /\ \A b \in Backups : CallsTo(b) # {} => FailedAnswer(b)

C13_Witness ==
    /\ FailedAnswer(OPENAI_GPT4O_MINI)
    /\ CallsTo(GOOGLE_GEMINI) = {}
    /\ FailedAnswer(ANTHROPIC_CLAUDE)
    /\ llm_response = Raised

\* C17: when every provider fails for the classification attempt of a job
\* (the multi-provider call raises and the fallback call fails too), the
\* failure reaches classify_document_async as an exception that goes to
\* self.retry; the task does not return a result for that attempt.
C17_AllProvidersFailedReachesRetry ==
    (/\ pc = "returned"
     /\ llm_response = Raised
     /\ FailedAnswer(VISION_LLM)) =>
       /\ task_outcome # None
       /\ task_outcome.kind = "retry"

\* C14: provider health is shared by all concurrently executing jobs and no
\* update is lost: the failures that jobs of the worker pool reported for a
\* provider since its last success are the failure count every job sees, so
\* that 3 failures reported by different jobs open the circuit for every job.
C14_HealthSharedByAllJobs ==
    \A w \in Workers, p \in PoolProbed :
       /\ pool_health[w][p].failures = recorded[p].count
       /\ (recorded[p].count >= FailureLimit /\ now - recorded[p].at <= CooldownSecs) =>
             ~is_provider_healthy(pool_health[w], p, now)

\* the messages of task id in the broker, and the workers executing it
JobMessages(id) == {m \in broker : m.id = id}
RunningOn(id) == {w \in Workers : running[w] # None /\ running[w].id = id}

\* the delay after the n-th failed attempt
BackoffDelay(n) ==
    CASE n = 1 -> 60
      [] n = 2 -> 120
      [] n = 3 -> 240
      [] OTHER -> 0

\* C15: after the n-th failed attempt of a job (n <= 3) the next attempt is
\* scheduled with a delay of 60 * 2^(n-1) seconds (60, 120, 240) from the
\* failure, and it does not start before that delay has elapsed.
C15_RetryBackoff ==
    \A id \in JobIds :
       /\ \A m \in JobMessages(id) :
             m.retries >= 1 =>
                /\ m.retries <= 3
                /\ failure_log[id] # None
                /\ failure_log[id].attempt = m.retries
                /\ m.eta = failure_log[id].at + BackoffDelay(m.retries)
       /\ \A w \in RunningOn(id) :
             running[w].retries >= 1 =>
                /\ failure_log[id] # None
                /\ failure_log[id].attempt = running[w].retries
                /\ running[w].started >=
                      failure_log[id].at + BackoffDelay(running[w].retries)
       /\ (failure_log[id] # None /\ failure_log[id].attempt <= 3) =>
             \/ \E m \in JobMessages(id) : m.retries = failure_log[id].attempt
             \/ \E w \in RunningOn(id) : running[w].retries = failure_log[id].attempt
             \/ backend[id].status \in {"SUCCESS", "FAILURE"}

C15_Witness ==
    \E w \in Workers :
       /\ running[w] # None
       /\ running[w].retries = 3
       /\ running[w].started = 420
       /\ failure_log[running[w].id].at = 180

\* C16: a job whose attempts keep failing is executed at most 4 times; an
\* attempt that fails makes the job Failed exactly when it is the attempt
\* with retry count 3 (the 4th); the poll result of the Failed job carries
\* the error of that last attempt, and a Failed job is neither enqueued nor
\* executed.
C16_RetriesExhausted ==
    \A id \in JobIds :
       /\ executions[id] <= 4
       /\ (failure_log[id] # None /\ failure_log[id].attempt = 4) =>
             /\ backend[id].status = "FAILURE"
             /\ backend[id].result = failure_log[id].exc
       /\ (backend[id] # None /\ backend[id].status = "FAILURE") =>
             /\ JobMessages(id) = {}
             /\ RunningOn(id) = {}
             /\ get_task_result(backend, id).status = "failed"
             /\ backend[id].result # TimeLimitExceeded =>
                   /\ executions[id] = 4
                   /\ failure_log[id].attempt = 4
                   /\ get_task_result(backend, id).error = failure_log[id].exc

C16_Witness ==
    \E id \in JobIds :
       /\ executions[id] = 4
       /\ backend[id] # None
       /\ backend[id].status = "FAILURE"
       /\ get_task_result(backend, id).error = [error |-> "Exception", attempt |-> 4]

\* C18: when the execution of a job exceeds its time limit, the job becomes
\* Failed directly: an attempt that has reached a time limit of the task
\* (the soft limit of 240 s comes first) ends with the job Failed, its retry
\* count not incremented, no message enqueued for it, and no result of the
\* attempt stored.
C18_TimeLimitFailsDirectly ==
    [][\A w \in Workers :
          (/\ running[w] # None
           /\ now - running[w].started >= 240
           /\ running'[w] = None) =>
             /\ backend'[running[w].id].status = "FAILURE"
             /\ backend'[running[w].id].result = TimeLimitExceeded
             /\ \A m \in broker' : m.id # running[w].id]_vars

\* what a poll of task id answers
Poll(id) == get_task_result(backend, id)

\* C19: every submitted job whose attempts all come to an end, with the pool
\* taking tasks, is eventually answered 'completed' or 'failed' by
\* get_task_result; it does not stay 'processing' forever.
C19_EveryJobIsSettled ==
    \A id \in JobIds :
       (id \in submitted) ~> (Poll(id).status \in {"completed", "failed"})

C19_Witness ==
    \E id \in JobIds :
       /\ id \in submitted
       /\ executions[id] = 2
       /\ Poll(id).status = "completed"
       /\ Poll(id).result.classification = "invoice"

\* C20: get_task_result answers 'processing' for a job that is queued,
\* running or waiting for a retry, 'completed' with the stored result for a
\* Completed job, and 'failed' with the error for a Failed job.
C20_PollStatus ==
    \A id \in submitted :
       /\ (JobMessages(id) # {} \/ RunningOn(id) # {}) =>
             /\ Poll(id).status = "processing"
             /\ Poll(id).task_id = id
       /\ (JobMessages(id) = {} /\ RunningOn(id) = {}) =>
             /\ backend[id] # None
             /\ IF backend[id].status = "SUCCESS"
                THEN /\ Poll(id).status = "completed"
                     /\ Poll(id).result = backend[id].result
                     /\ Poll(id).result.task_id = id
                ELSE /\ backend[id].status = "FAILURE"
                     /\ Poll(id).status = "failed"
                     /\ Poll(id).error = backend[id].result
                     /\ Poll(id).error \in
                           {TimeLimitExceeded, SoftTimeLimitExceeded,
                            [error |-> "Exception", attempt |-> 4]}

C20_Witness ==
    \E id \in submitted :
       /\ backend[id] # None
       /\ backend[id].status = "RETRY"
       /\ JobMessages(id) # {}
       /\ Poll(id).status = "processing"

\* C21: a poll with a task id that no submit returned is answered NotFound,
\* never 'processing', 'completed' or 'failed'.
C21_UnknownIdNotFound ==
    \A id \in JobIds \ submitted :
       Poll(id).status \notin {"processing", "completed", "failed"}

C23_OneWorkerPerJob ==
    \A id \in JobIds : Cardinality(RunningOn(id)) <= 1

C23_Witness ==
    /\ running[1] = None
    /\ running[2] # None
    /\ running[2].retries = 2
    /\ executions[running[2].id] = 3

\* the positions of the trace at which a success or failure of p is recorded
RecordsOf(p) == {k \in 1..Len(trace) : trace[k] \in {Success(p), Failure(p)}}

\* C27: each adapter call is recorded exactly once: a call of a provider
\* that has returned is followed by one record_success or record_failure, so
\* one failed primary call raises the failure count of the primary by 1.
C27_EachCallRecordedOnce ==
    \A p \in LLMProvider :
       /\ Cardinality(RecordsOf(p)) <= Cardinality(CallsTo(p))
       /\ \A k \in RecordsOf(p) : k > 1 /\ trace[k - 1] = Call(p)

\* the positions of the trace at which the backup chain is entered
ChainRuns == {k \in 1..Len(trace) : trace[k].e = "_try_backup_providers"}

\* C28: within one execution of classify_with_confidence_upgrade every
\* adapter (primary, GPT-4o, each backup) is called at most once, the backup
\* chain is run at most once, and a backup without an API key is never
\* called.
C28_EachAdapterAtMostOnce ==
    /\ \A p \in LLMProvider : Cardinality(CallsTo(p)) <= 1
    /\ Cardinality(ChainRuns) <= 1
    /\ \A b \in Backups : ~backup_providers[b].enabled => CallsTo(b) = {}
    /\ \A b \in Backups : CallsTo(b) # {} => ChainRuns # {}

C28_Witness ==
    /\ ~backup_providers[GOOGLE_GEMINI].enabled
    /\ backup_providers[ANTHROPIC_CLAUDE].enabled
    /\ QualityFailed
    /\ Cardinality(CallsTo(ANTHROPIC_CLAUDE)) = 1
    /\ Cardinality(ChainRuns) = 1
    /\ llm_response # None

\* C29: in every result classify_with_confidence_upgrade returns,
\* original_confidence and original_classification are present exactly when
\* upgraded is true, also when a backup result replaces a GPT-4o result that
\* was still 'unknown'.
C29_OriginalIffUpgraded ==
    (llm_response # None /\ llm_response # Raised) =>
       /\ ("original_confidence" \in DOMAIN llm_response)
             <=> (Get(llm_response, "upgraded", FALSE) = TRUE)
       /\ ("original_classification" \in DOMAIN llm_response)
             <=> (Get(llm_response, "upgraded", FALSE) = TRUE)

\* a backup that _try_backup_providers would skip now as unhealthy keeps its
\* record
SkipLeavesRecord ==
    LET sel == select_backup(1, provider_health, backup_providers, now) IN
    \A b \in Backups :
       (\E k \in 1..Len(sel.events) : sel.events[k] = Checked(b, FALSE)) =>
          sel.health[b] = provider_health[b]

\* C30: record_success, record_failure and is_provider_healthy on provider p
\* leave the record of every other provider unchanged; record_success leaves
\* last_failure of p unchanged; is_provider_healthy changes nothing unless
\* the count of p is >= 3 and more than 300 s have passed since its last
\* failure; a backup skipped as unhealthy keeps its record.
C30_HealthFrame ==
    [][/\ \A p \in LLMProvider :
             (\/ HealthCall("record_success", p)
              \/ HealthCall("record_failure", p)
              \/ HealthCall("is_provider_healthy", p)) =>
                \A q \in LLMProvider \ {p} : provider_health'[q] = provider_health[q]
       /\ \A p \in LLMProvider :
             HealthCall("record_success", p) =>
                provider_health'[p].last_failure = provider_health[p].last_failure
       /\ \A p \in LLMProvider :
             (/\ HealthCall("is_provider_healthy", p)
              /\ \/ provider_health[p].failures < 3
                 \/ now - provider_health[p].last_failure <= 300) =>
                provider_health' = provider_health
       /\ SkipLeavesRecord]_vars

C30_Witness ==
    /\ last_call.op = "record_success"
    /\ last_call.provider = GOOGLE_GEMINI
    /\ provider_health[GOOGLE_GEMINI].failures = 0
    /\ provider_health[GOOGLE_GEMINI].last_failure = 300
    /\ provider_health[OPENAI_GPT4O_MINI].failures = 3
    /\ ~is_provider_healthy(provider_health, OPENAI_GPT4O_MINI, now)

\* the four structured statuses of a poll response
PollStatuses == {"processing", "completed", "failed", "not_found"}

\* C24: every response of /classification_result/<task_id> carries one of
\* the four structured statuses (processing, completed, failed, not found),
\* never a raw internal error; and every 'failed' response carries an error
\* message and the job id.
C24_PollResponsesStructured ==
    http_response # None =>
       LET body == http_response.response.body IN
       /\ "status" \in DOMAIN body
       /\ body.status \in PollStatuses
       /\ body.status = "failed" =>
             /\ "error" \in DOMAIN body
             /\ "task_id" \in DOMAIN body
             /\ body.task_id = 1

\* the provider call ended with a network error, a timeout, a status other
\* than 200 or a malformed answer
BadReply(reply) ==
    \/ reply.kind \in {"raise", "status"}
    \/ reply.content \in {"missing", "not_json", "json_list"}

\* C25: on a network error, a timeout, a status other than 200 or a malformed
\* answer, each of the four adapters returns success = false with a
\* non-empty error message (and propagates no exception).
C25_AdapterFailureHasMessage ==
    (adapter_call # None /\ BadReply(adapter_call.reply)) =>
       /\ adapter_call.returned.success = FALSE
       /\ adapter_call.returned.error # ""

\* a JSON value that is a usable label / a usable confidence
ValidClassification(v) == "str" \in DOMAIN v
ValidConfidence(v) == "num" \in DOMAIN v

\* C26: for an answer that parses as a JSON object an adapter returns
\* success = true, with classification 'unknown' when that field is missing
\* or invalid and confidence 0.0 when that field is missing or invalid (for
\* example not a number); such a field never makes the attempt a failure.
C26_AdapterDefaults ==
    (/\ adapter_call # None
     /\ adapter_call.reply.kind = "ok"
     /\ adapter_call.reply.content = "object") =>
       LET object == adapter_call.reply.object
           returned == adapter_call.returned
       IN  /\ returned.success = TRUE
           /\ ~ValidClassification(object.classification) =>
                 returned.classification = JStr("unknown")
           /\ ~ValidConfidence(object.confidence) => returned.confidence = 0

====
